---- MODULE Spec2Model ----
(***************************************************************************)
(* bignumbe-rs: the BigNumBase<T> value type (src/src/lib.rs) and the Base *)
(* contract it is generic over.  A value is a pair (sig, exp) of two u64   *)
(* fields denoting sig * NUMBER^exp.                                       *)
(*                                                                         *)
(* TLC's integers are 32 bits wide, so the machine words are modelled at a *)
(* reduced width: the significand word (u64, and u128 at twice the width)  *)
(* has SigBits bits, the exponent word (u64) has ExpBits bits, and the u32 *)
(* that `exp as u32` truncates to has U32Bits bits.  Every range of a base *)
(* is derived from the word width the way calculate_ranges derives it from *)
(* 64, so the relations between minSig, maxSig and u64::MAX are those of   *)
(* the program.                                                            *)
(***************************************************************************)
EXTENDS Integers, FiniteSets, Sequences, TLC

\* Width of the significand word (u64 in the program).
SigBits == 4
\* Width of the exponent word (u64 in the program).
ExpBits == 4
\* Width of the word `as u32` truncates to; narrower than the exponent word,
\* wide enough for every exp_range bound.
U32Bits == ExpBits - 1

U64MAX == 2^SigBits - 1
U128MAX == 2^(2 * SigBits) - 1
EXPMAX == 2^ExpBits - 1
U32MAX == 2^U32Bits - 1


VARIABLES base, lhs, rhs, arg, op, out, pc,
          cache, holder, poisoned, tpc, treq, tret

vars == <<base, lhs, rhs, arg, op, out, pc, cache, holder, poisoned, tpc, treq, tret>>

\* The state of a caller of the arithmetic.
arith_vars == <<base, lhs, rhs, arg, op, out, pc>>

\* The state of the base-metadata cache and of the threads that call it.
cache_vars == <<cache, holder, poisoned, tpc, treq, tret>>

(***************************************************************************)
(* Integer helpers of the standard library.                                *)
(***************************************************************************)
RECURSIVE ilog(_, _)
\* u64::ilog / u128::ilog: the highest m with n^m <= x, for x >= 1.
ilog(x, n) == IF x < n THEN 0 ELSE 1 + ilog(x \div n, n)

is_power_of_two(x) == \E k \in 0..16 : x = 2^k

\* u32::saturating_add at the modelled width.
saturating_add(x, y) == IF x + y > U32MAX THEN U32MAX ELSE x + y

\* u64::saturating_sub.
saturating_sub(x, y) == IF x < y THEN 0 ELSE x - y

\* u64::wrapping_add and u64::wrapping_sub on significand words.
wrapping_add(x, y) == (x + y) % (U64MAX + 1)

\* Mutant: the subtraction takes a borrow in.
wrapping_sub_borrow(x, y) == (x - y + U64MAX) % (U64MAX + 1)

wrapping_sub(x, y) == (x - y + U64MAX + 1) % (U64MAX + 1)

\* `exp as u32`: truncation of the exponent word.
as_u32(x) == x % (U32MAX + 1)

\* calculate_ranges takes its power-of-two branch for a radix 2^p with p a
\* power of two; p then divides 64, which is what makes maxSig = u64::MAX
\* exact.  A radix is modelled when p divides the modelled width too.
ExactAtWidth(n) ==
    (is_power_of_two(n) /\ is_power_of_two(ilog(n, 2)))
        => SigBits % ilog(n, 2) = 0

\* The radixes checked: 2 and 4 take the power-of-two branch (maxSig =
\* u64::MAX, as Binary and Hexadecimal), 3 the generic branch (maxSig <
\* u64::MAX, as Decimal).
Radixes == {n \in {2, 3, 4} : ExactAtWidth(n)}

(***************************************************************************)
(* The Base contract, generic default implementations, for radix n.        *)
(***************************************************************************)
RECURSIVE pow(_, _)
pow(n, e) == IF e = 0 THEN 1 ELSE n * pow(n, e - 1)

lshift(n, x, e) == x * pow(n, e)

rshift(n, x, e) == x \div pow(n, e)

get_mag(n, x) == ilog(x, n)

\* <<minExp, maxExp, minSig, maxSig>>
calculate_ranges(n) ==
    IF is_power_of_two(n) /\ is_power_of_two(ilog(n, 2))
    THEN LET p == ilog(n, 2)
             e == SigBits \div p
         IN  <<e - 1, e, pow(n, e - 1), U64MAX>>
    ELSE LET e == ilog(U64MAX, n)
         IN  <<e - 1, e, pow(n, e - 1), pow(n, e) - 1>>

\* Base::new stores the ranges once; exp_range() and sig_range() read them.
BaseRanges == [n \in Radixes |-> calculate_ranges(n)]

min_exp(n) == BaseRanges[n][1]
max_exp(n) == BaseRanges[n][2]
min_sig(n) == BaseRanges[n][3]
max_sig(n) == BaseRanges[n][4]

\* The u128 variants compute the same functions on the double-width word.
lshift_u128(n, x, e) == x * pow(n, e)

rshift_u128(n, x, e) == x \div pow(n, e)

get_mag_u128(n, x) == ilog(x, n)

(***************************************************************************)
(* Values and results.  A call returns a value or panics; the panic is     *)
(* named by the error taxonomy of the specification.                       *)
(***************************************************************************)
BigNum(s, e) == [sig |-> s, exp |-> e]

Ok(s, e) == [tag |-> "ok", sig |-> s, exp |-> e]

Panic(kind) == [tag |-> kind, sig |-> 0, exp |-> 0]

Zero == BigNum(0, 0)

val(r) == BigNum(r.sig, r.exp)

is_valid(n, s, e) == s <= max_sig(n) /\ (e = 0 \/ s >= min_sig(n))

\* Every pair new_raw accepts.
ValidSet(n) ==
    {v \in [sig : 0..U64MAX, exp : 0..EXPMAX] : is_valid(n, v.sig, v.exp)}

(***************************************************************************)
(* Construction.                                                           *)
(***************************************************************************)
\* Mutant: the compact test comes before the test against maxSig.
new_compact_first(n, s, e) ==
    IF s >= min_sig(n) /\ s <= max_sig(n) THEN Ok(s, e)
    ELSE IF e = 0 THEN Ok(s, e)
    ELSE IF s > max_sig(n)
    THEN IF e + 1 > EXPMAX THEN Panic("ArithmeticOverflow")
         ELSE Ok(rshift(n, s, 1), e + 1)
    ELSE IF s = 0 THEN Panic("InvalidConstruction")
    ELSE LET mag == get_mag(n, s)
         IN  IF saturating_add(mag, as_u32(e)) <= min_exp(n)
             THEN Ok(lshift(n, s, as_u32(e)), 0)
             ELSE LET adj == min_exp(n) - mag
                  IN  Ok(lshift(n, s, adj), e - adj)

new(n, s, e) ==
    IF s >= min_sig(n) /\ s <= max_sig(n) THEN Ok(s, e)
    ELSE IF s > max_sig(n)
    THEN IF e + 1 > EXPMAX THEN Panic("ArithmeticOverflow")
         ELSE Ok(rshift(n, s, 1), e + 1)
    ELSE IF e = 0 THEN Ok(s, e)
    ELSE IF s = 0 THEN Panic("InvalidConstruction")
    ELSE LET mag == get_mag(n, s)
         IN  IF saturating_add(mag, as_u32(e)) <= min_exp(n)
             THEN Ok(lshift(n, s, as_u32(e)), 0)
             ELSE LET adj == min_exp(n) - mag
                  IN  Ok(lshift(n, s, adj), e - adj)

new_raw(n, s, e) ==
    IF is_valid(n, s, e) THEN Ok(s, e) ELSE Panic("InvalidConstruction")

(***************************************************************************)
(* Ordering: Ord::cmp, lexicographic on (exp, sig).                        *)
(***************************************************************************)
\* Mutant: the significand is compared before the exponent.
cmp_sig_first(a, b) ==
    IF a.sig < b.sig THEN "Less"
    ELSE IF a.sig > b.sig THEN "Greater"
    ELSE IF a.exp < b.exp THEN "Less"
    ELSE IF a.exp > b.exp THEN "Greater"
    ELSE "Equal"

cmp(a, b) ==
    IF a.exp < b.exp THEN "Less"
    ELSE IF a.exp > b.exp THEN "Greater"
    ELSE IF a.sig < b.sig THEN "Less"
    ELSE IF a.sig > b.sig THEN "Greater"
    ELSE "Equal"

eq(a, b) == a.sig = b.sig /\ a.exp = b.exp

gt(a, b) == cmp(a, b) = "Greater"

ge(a, b) == cmp(a, b) # "Less"

lt(a, b) == cmp(a, b) = "Less"

(***************************************************************************)
(* BigNumBase::fuzzy_eq                                                    *)
(***************************************************************************)
\* u64::saturating_add
saturating_add_u64(x, y) == IF x + y > U64MAX THEN U64MAX ELSE x + y

\* Mutant: the operands are not ordered, self is taken for the smaller one.
fuzzy_eq_unordered(n, a, b, margin) ==
    LET min == a
        max == b
    IN  IF max.exp = min.exp THEN wrapping_sub(max.sig, min.sig) <= margin
        ELSE IF max.exp = (min.exp + 1) % (EXPMAX + 1)
        THEN /\ saturating_sub(max.sig, margin) <= min_sig(n)
             /\ saturating_add_u64(min.sig, margin) >= max_sig(n)
        ELSE FALSE

fuzzy_eq(n, a, b, margin) ==
    LET min == IF gt(a, b) THEN b ELSE a
        max == IF gt(a, b) THEN a ELSE b
    IN  IF max.exp = min.exp THEN max.sig - min.sig <= margin
        ELSE IF max.exp = (min.exp + 1) % (EXPMAX + 1)
        THEN /\ saturating_sub(max.sig, margin) <= min_sig(n)
             /\ saturating_add_u64(min.sig, margin) >= max_sig(n)
        ELSE FALSE

(***************************************************************************)
(* The primitive `+` and `-` of Rust on a word with maximum m.  An         *)
(* overflow panics when the build checks overflow (debug) and wraps when   *)
(* it does not (release): `wrap` is the build.  Overflow is the outcome    *)
(* written -1; OkChecked turns it into the panic.                          *)
(***************************************************************************)
Overflow == 0 - 1

plus(x, y, m, wrap) ==
    IF x < 0 \/ y < 0 THEN Overflow
    ELSE IF x + y <= m THEN x + y
    ELSE IF wrap THEN (x + y) % (m + 1)
    ELSE Overflow

minus(x, y, m, wrap) ==
    IF x < 0 \/ y < 0 THEN Overflow
    ELSE IF x >= y THEN x - y
    ELSE IF wrap THEN x - y + m + 1
    ELSE Overflow

OkChecked(s, e) ==
    IF s < 0 \/ e < 0 THEN Panic("ArithmeticOverflow") ELSE Ok(s, e)

(***************************************************************************)
(* Add::add                                                                *)
(***************************************************************************)
\* Mutant: the repair of a wrapped sum ignores the headroom above maxSig.
add_no_headroom(n, a, b, wrap) ==
    LET max == IF gt(a, b) THEN a ELSE b
        min == IF gt(a, b) THEN b ELSE a
        shift == max.exp - min.exp
    IN  IF shift >= max_exp(n) THEN Ok(max.sig, max.exp)
        ELSE LET result == wrapping_add(max.sig, rshift(n, min.sig, as_u32(shift)))
             IN  IF result < max.sig
                 THEN LET s == plus(min_sig(n), rshift(n, result, 1), U64MAX, wrap)
                      IN  OkChecked(s, plus(max.exp, 1, EXPMAX, wrap))
                 ELSE IF n # 2 /\ result > max_sig(n)
                 THEN OkChecked(rshift(n, result, 1), plus(max.exp, 1, EXPMAX, wrap))
                 ELSE Ok(result, max.exp)

\* Mutant: the operands are not ordered, self is taken for the larger one.
add_lhs_as_max(n, a, b, wrap) ==
    LET max == a
        min == b
        shift == IF a.exp >= b.exp THEN a.exp - b.exp ELSE 0
    IN  IF shift >= max_exp(n) THEN Ok(max.sig, max.exp)
        ELSE LET result == wrapping_add(max.sig, rshift(n, min.sig, as_u32(shift)))
             IN  IF result < max.sig
                 THEN LET diff == U64MAX - max_sig(n)
                          t == plus(result, diff, U64MAX, wrap)
                          s == IF t < 0 THEN Overflow
                               ELSE plus(min_sig(n), rshift(n, t, 1), U64MAX, wrap)
                      IN  OkChecked(s, plus(max.exp, 1, EXPMAX, wrap))
                 ELSE IF n # 2 /\ result > max_sig(n)
                 THEN OkChecked(rshift(n, result, 1), plus(max.exp, 1, EXPMAX, wrap))
                 ELSE Ok(result, max.exp)

\* Mutant: the smaller operand is taken for negligible as soon as it spans
\* minExp orders of magnitude less, not the whole window.
add_early_cutoff(n, a, b, wrap) ==
    LET max == IF gt(a, b) THEN a ELSE b
        min == IF gt(a, b) THEN b ELSE a
        shift == max.exp - min.exp
    IN  IF shift >= min_exp(n) THEN Ok(max.sig, max.exp)
        ELSE LET result == wrapping_add(max.sig, rshift(n, min.sig, as_u32(shift)))
             IN  IF result < max.sig
                 THEN LET diff == U64MAX - max_sig(n)
                          t == plus(result, diff, U64MAX, wrap)
                          s == IF t < 0 THEN Overflow
                               ELSE plus(min_sig(n), rshift(n, t, 1), U64MAX, wrap)
                      IN  OkChecked(s, plus(max.exp, 1, EXPMAX, wrap))
                 ELSE IF n # 2 /\ result > max_sig(n)
                 THEN OkChecked(rshift(n, result, 1), plus(max.exp, 1, EXPMAX, wrap))
                 ELSE Ok(result, max.exp)

\* Mutant: the repair of a wrapped sum halves it without restoring the
\* carried-out top digit (minSig).
add_repair_no_carry(n, a, b, wrap) ==
    LET max == IF gt(a, b) THEN a ELSE b
        min == IF gt(a, b) THEN b ELSE a
        shift == max.exp - min.exp
    IN  IF shift >= max_exp(n) THEN Ok(max.sig, max.exp)
        ELSE LET result == wrapping_add(max.sig, rshift(n, min.sig, as_u32(shift)))
             IN  IF result < max.sig
                 THEN LET diff == U64MAX - max_sig(n)
                          t == plus(result, diff, U64MAX, wrap)
                          s == IF t < 0 THEN Overflow ELSE rshift(n, t, 1)
                      IN  OkChecked(s, plus(max.exp, 1, EXPMAX, wrap))
                 ELSE IF n # 2 /\ result > max_sig(n)
                 THEN OkChecked(rshift(n, result, 1), plus(max.exp, 1, EXPMAX, wrap))
                 ELSE Ok(result, max.exp)

add(n, a, b, wrap) ==
    LET max == IF gt(a, b) THEN a ELSE b
        min == IF gt(a, b) THEN b ELSE a
        shift == max.exp - min.exp
    IN  IF shift >= max_exp(n) THEN Ok(max.sig, max.exp)
        ELSE LET result == wrapping_add(max.sig, rshift(n, min.sig, as_u32(shift)))
             IN  IF result < max.sig
                 THEN LET diff == U64MAX - max_sig(n)
                          t == plus(result, diff, U64MAX, wrap)
                          s == IF t < 0 THEN Overflow
                               ELSE plus(min_sig(n), rshift(n, t, 1), U64MAX, wrap)
                      IN  OkChecked(s, plus(max.exp, 1, EXPMAX, wrap))
                 ELSE IF n # 2 /\ result > max_sig(n)
                 THEN OkChecked(rshift(n, result, 1), plus(max.exp, 1, EXPMAX, wrap))
                 ELSE Ok(result, max.exp)

(***************************************************************************)
(* Sub::sub                                                                *)
(***************************************************************************)
\* Mutant: the result is returned without renormalization.
sub_normalize_skip(n, res_sig, res_exp) ==
    IF res_sig = 0 THEN Ok(0, 0) ELSE Ok(res_sig, res_exp)

sub_normalize(n, res_sig, res_exp) ==
    IF res_sig = 0 THEN Ok(0, 0)
    ELSE IF res_exp = 0 \/ res_sig >= min_sig(n) THEN Ok(res_sig, res_exp)
    ELSE LET mag == get_mag(n, res_sig)
             adj == min_exp(n) - mag
         IN  IF adj = res_exp THEN Ok(lshift(n, res_sig, adj), 0)
             ELSE IF adj >= res_exp
             THEN LET diff == adj - res_exp - 1
                  IN  Ok(lshift(n, res_sig, as_u32(diff)), 0)
             ELSE Ok(lshift(n, res_sig, adj), res_exp - adj)

\* Mutant: the smaller operand is subtracted without being shifted to the
\* exponent of the larger one.
sub_checked_unshifted(n, max, min, wrap) ==
    LET shift == max.exp - min.exp
    IN  IF shift >= max_exp(n) THEN Ok(max.sig, max.exp)
        ELSE LET result == wrapping_sub(max.sig, min.sig)
                 res_exp == IF result > max.sig
                            THEN minus(max.exp, 1, EXPMAX, wrap)
                            ELSE max.exp
             IN  IF res_exp < 0 THEN Panic("ArithmeticOverflow")
                 ELSE sub_normalize(n, result, res_exp)

sub_checked(n, max, min, wrap) ==
    LET shift == max.exp - min.exp
    IN  IF shift >= max_exp(n) THEN Ok(max.sig, max.exp)
        ELSE LET result == wrapping_sub(max.sig, rshift(n, min.sig, as_u32(shift)))
                 res_exp == IF result > max.sig
                            THEN minus(max.exp, 1, EXPMAX, wrap)
                            ELSE max.exp
             IN  IF res_exp < 0 THEN Panic("ArithmeticOverflow")
                 ELSE sub_normalize(n, result, res_exp)

\* Mutant: equal operands are refused too.
sub_strict(n, a, b, wrap) ==
    IF gt(a, b) THEN sub_checked(n, a, b, wrap) ELSE Panic("Underflow")

sub(n, a, b, wrap) ==
    IF ge(a, b) THEN sub_checked(n, a, b, wrap) ELSE Panic("Underflow")

(***************************************************************************)
(* Mul::mul                                                                *)
(***************************************************************************)
\* Mutant: the excess magnitude is not added to the exponent.
mul_exp_unadjusted(n, a, b, wrap) ==
    IF a.exp = 0 /\ a.sig = 1 THEN Ok(b.sig, b.exp)
    ELSE IF a.exp = 0 /\ a.sig = 0 THEN Ok(0, 0)
    ELSE IF b.exp = 0 /\ b.sig = 1 THEN Ok(a.sig, a.exp)
    ELSE IF b.exp = 0 /\ b.sig = 0 THEN Ok(0, 0)
    ELSE LET res_sig == a.sig * b.sig
             res_exp == plus(a.exp, b.exp, EXPMAX, wrap)
         IN  IF res_exp < 0 THEN Panic("ArithmeticOverflow")
             ELSE IF res_sig > max_sig(n)
             THEN LET mag == get_mag_u128(n, res_sig)
                      adj == mag - min_exp(n)
                      s == rshift_u128(n, res_sig, adj)
                  IN  IF s > U64MAX
                      THEN Panic("NormalizationInvariantViolation")
                      ELSE Ok(s, res_exp)
             ELSE IF res_exp # 0 /\ res_sig < min_sig(n)
             THEN Panic("NormalizationInvariantViolation")
             ELSE Ok(res_sig, res_exp)

\* Mutant: the early returns for the operands 0 and 1 are missing.
mul_no_shortcuts(n, a, b, wrap) ==
    LET res_sig == a.sig * b.sig
        res_exp == plus(a.exp, b.exp, EXPMAX, wrap)
    IN  IF res_exp < 0 THEN Panic("ArithmeticOverflow")
        ELSE IF res_sig > max_sig(n)
        THEN LET mag == get_mag_u128(n, res_sig)
                 adj == mag - min_exp(n)
                 s == rshift_u128(n, res_sig, adj)
             IN  IF s > U64MAX
                 THEN Panic("NormalizationInvariantViolation")
                 ELSE OkChecked(s, plus(res_exp, adj, EXPMAX, wrap))
        ELSE IF res_exp # 0 /\ res_sig < min_sig(n)
        THEN Panic("NormalizationInvariantViolation")
        ELSE Ok(res_sig, res_exp)

mul(n, a, b, wrap) ==
    IF a.exp = 0 /\ a.sig = 1 THEN Ok(b.sig, b.exp)
    ELSE IF a.exp = 0 /\ a.sig = 0 THEN Ok(0, 0)
    ELSE IF b.exp = 0 /\ b.sig = 1 THEN Ok(a.sig, a.exp)
    ELSE IF b.exp = 0 /\ b.sig = 0 THEN Ok(0, 0)
    ELSE LET res_sig == a.sig * b.sig
             res_exp == plus(a.exp, b.exp, EXPMAX, wrap)
         IN  IF res_exp < 0 THEN Panic("ArithmeticOverflow")
             ELSE IF res_sig > max_sig(n)
             THEN LET mag == get_mag_u128(n, res_sig)
                      adj == mag - min_exp(n)
                      s == rshift_u128(n, res_sig, adj)
                  IN  IF s > U64MAX
                      THEN Panic("NormalizationInvariantViolation")
                      ELSE OkChecked(s, plus(res_exp, adj, EXPMAX, wrap))
             ELSE IF res_exp # 0 /\ res_sig < min_sig(n)
             THEN Panic("NormalizationInvariantViolation")
             ELSE Ok(res_sig, res_exp)

(***************************************************************************)
(* Div::div                                                                *)
(***************************************************************************)
\* `x as u64` of a u128.
as_u64(x) == x % (U64MAX + 1)

\* Mutant: the quotient is shifted by max_exp whatever magnitude was lost.
div_fixed_shift(n, a, b) ==
    IF cmp(a, b) = "Less" THEN new(n, 0, 0)
    ELSE IF cmp(a, b) = "Equal" THEN new(n, 1, 0)
    ELSE IF a.exp = 0
    THEN IF b.sig = 0 THEN Panic("DivisionByZero")
         ELSE Ok(a.sig \div b.sig, a.exp)
    ELSE IF b.sig = 0 THEN Panic("DivisionByZero")
    ELSE LET lsig == lshift_u128(n, a.sig, max_exp(n))
             rsig == b.sig
             res_sig == lsig \div rsig
             res_exp == a.exp - b.exp
             mag == get_mag_u128(n, res_sig)
             adj == (min_exp(n) + max_exp(n)) - mag
         IN  IF adj <= res_exp
             THEN Ok(as_u64(rshift_u128(n, res_sig, max_exp(n))), res_exp - adj)
             ELSE LET diff == adj - res_exp
                  IN  Ok(as_u64(rshift_u128(n, res_sig, max_exp(n) - adj + as_u32(diff))), 0)

div(n, a, b) ==
    IF cmp(a, b) = "Less" THEN new(n, 0, 0)
    ELSE IF cmp(a, b) = "Equal" THEN new(n, 1, 0)
    ELSE IF a.exp = 0
    THEN IF b.sig = 0 THEN Panic("DivisionByZero")
         ELSE Ok(a.sig \div b.sig, a.exp)
    ELSE IF b.sig = 0 THEN Panic("DivisionByZero")
    ELSE LET lsig == lshift_u128(n, a.sig, max_exp(n))
             rsig == b.sig
             res_sig == lsig \div rsig
             res_exp == a.exp - b.exp
             mag == get_mag_u128(n, res_sig)
             adj == (min_exp(n) + max_exp(n)) - mag
         IN  IF adj <= res_exp
             THEN Ok(as_u64(rshift_u128(n, res_sig, max_exp(n) - adj)), res_exp - adj)
             ELSE LET diff == adj - res_exp
                  IN  Ok(as_u64(rshift_u128(n, res_sig, max_exp(n) - adj + as_u32(diff))), 0)

(***************************************************************************)
(* Shl::shl, Shr::shr                                                      *)
(***************************************************************************)
shl(n, a, k) ==
    IF a.exp # 0
    THEN IF a.exp + k > EXPMAX THEN Panic("ArithmeticOverflow")
         ELSE Ok(a.sig, a.exp + k)
    ELSE IF a.sig = 0 THEN Panic("IlogOfZero")
    ELSE LET mag == get_mag(n, a.sig)
             adj == min_exp(n) - mag
         IN  IF adj > k THEN Ok(lshift(n, a.sig, as_u32(k)), 0)
             ELSE Ok(lshift(n, a.sig, adj), k - adj)

\* Mutant: the significand is shrunk by the whole shift, the part the
\* exponent absorbs included.
shr_full_diff(n, a, k) ==
    IF a.exp >= k THEN Ok(a.sig, a.exp - k)
    ELSE IF a.sig = 0 THEN Panic("IlogOfZero")
    ELSE LET mag == get_mag(n, a.sig)
             diff == k
         IN  IF diff > mag THEN Panic("ShiftOutOfRange")
             ELSE Ok(rshift(n, a.sig, as_u32(diff)), 0)

\* Mutant: a shift larger than the magnitude is not refused.
shr_no_range_check(n, a, k) ==
    IF a.exp >= k THEN Ok(a.sig, a.exp - k)
    ELSE IF a.sig = 0 THEN Panic("IlogOfZero")
    ELSE LET diff == k - a.exp
         IN  Ok(rshift(n, a.sig, as_u32(diff)), 0)

shr(n, a, k) ==
    IF a.exp >= k THEN Ok(a.sig, a.exp - k)
    ELSE IF a.sig = 0 THEN Panic("IlogOfZero")
    ELSE LET mag == get_mag(n, a.sig)
             diff == k - a.exp
         IN  IF diff > mag THEN Panic("ShiftOutOfRange")
             ELSE Ok(rshift(n, a.sig, as_u32(diff)), 0)

(***************************************************************************)
(* Succ::succ, Pred::pred (src/src/traits.rs)                              *)
(***************************************************************************)
\* Mutant: the significand is incremented at maxSig too.
succ_no_rollover(n, a, wrap) ==
    OkChecked(plus(a.sig, 1, U64MAX, wrap), a.exp)

succ(n, a, wrap) ==
    IF a.sig = max_sig(n)
    THEN OkChecked(min_sig(n), plus(a.exp, 1, EXPMAX, wrap))
    ELSE OkChecked(plus(a.sig, 1, U64MAX, wrap), a.exp)

\* Mutant: the significand is decremented at minSig too.
pred_no_rollover(n, a) ==
    IF a.exp = 0
    THEN IF a.sig = 0 THEN Panic("PredOfZero") ELSE Ok(a.sig - 1, a.exp)
    ELSE Ok(a.sig - 1, a.exp)

pred(n, a) ==
    IF a.exp = 0
    THEN IF a.sig = 0 THEN Panic("PredOfZero") ELSE Ok(a.sig - 1, a.exp)
    ELSE IF a.sig = min_sig(n) THEN Ok(max_sig(n), a.exp - 1)
    ELSE Ok(a.sig - 1, a.exp)

(***************************************************************************)
(* The caller.  It constructs a first value with new or new_raw from any   *)
(* raw pair (pc = "new"), then applies operations to its two operands lhs  *)
(* and rhs (pc = "call"); a call leaves its result in out (pc = "ret"),    *)
(* and the caller stores a returned value into either operand.  A panic    *)
(* ends the run.  arg holds the scalar arguments of the call: (sig, exp)   *)
(* of new and new_raw, (0, n) of a shift by n.                             *)
(***************************************************************************)
\* Largest shift amount the caller of Spec passes.
MaxShift == 2

NoArg == BigNum(0, 0)

(***************************************************************************)
(* BASEDATA_CACHE: a map from radix to BaseData behind one mutex.  cache   *)
(* is the map, holder the thread that holds the guard, poisoned the poison *)
(* flag of the mutex.  A thread is idle between calls, "locked" with the   *)
(* guard before the body of its call and "unlock" after it; treq is the    *)
(* call it makes or made last (cached: whether the radix had an entry when *)
(* the call began) and tret what that call returned.                       *)
(***************************************************************************)
Threads == {"t1", "t2"}

NoThread == "none"

Request(f, r, x, c) == [fn |-> f, base |-> r, x |-> x, cached |-> c]

CacheInit ==
    /\ cache = << >>
    /\ holder = NoThread
    /\ poisoned = FALSE
    /\ tpc = [t \in Threads |-> "idle"]
    /\ treq = [t \in Threads |-> Request("none", 0, 0, FALSE)]
    /\ tret = [t \in Threads |-> Ok(0, 0)]

Returns(name, a, r) ==
    /\ op' = name
    /\ arg' = a
    /\ out' = r
    /\ pc' = IF r.tag = "ok" THEN "ret" ELSE "panicked"
    /\ UNCHANGED <<base, lhs, rhs>>
    /\ UNCHANGED cache_vars

Init ==
    /\ base \in Radixes
    /\ CacheInit
    /\ lhs = Zero
    /\ rhs = Zero
    /\ arg = NoArg
    /\ op = "init"
    /\ out = Ok(0, 0)
    /\ pc = "new"

CallNew ==
    /\ pc = "new"
    /\ \E s \in 0..U64MAX, e \in 0..EXPMAX :
          Returns("new", BigNum(s, e), new(base, s, e))

CallNewRaw ==
    /\ pc = "new"
    /\ \E s \in 0..U64MAX, e \in 0..EXPMAX :
          Returns("new_raw", BigNum(s, e), new_raw(base, s, e))

CallAdd ==
    /\ pc = "call"
    /\ \E wrap \in BOOLEAN : Returns("add", NoArg, add(base, lhs, rhs, wrap))

CallSub ==
    /\ pc = "call"
    /\ \E wrap \in BOOLEAN : Returns("sub", NoArg, sub(base, lhs, rhs, wrap))

CallMul ==
    /\ pc = "call"
    /\ \E wrap \in BOOLEAN : Returns("mul", NoArg, mul(base, lhs, rhs, wrap))

CallDiv ==
    /\ pc = "call"
    /\ Returns("div", NoArg, div(base, lhs, rhs))

CallShl ==
    /\ pc = "call"
    /\ \E k \in 0..MaxShift : Returns("shl", BigNum(0, k), shl(base, lhs, k))

CallShr ==
    /\ pc = "call"
    /\ \E k \in 0..MaxShift : Returns("shr", BigNum(0, k), shr(base, lhs, k))

CallSucc ==
    /\ pc = "call"
    /\ \E wrap \in BOOLEAN : Returns("succ", NoArg, succ(base, lhs, wrap))

CallPred ==
    /\ pc = "call"
    /\ Returns("pred", NoArg, pred(base, lhs))

\* A comparison is pure and returns no value to store: its ordering is left
\* in out.tag and the run is followed no further.
CallCmp ==
    /\ pc = "call"
    /\ op' = "cmp"
    /\ arg' = NoArg
    /\ out' = [tag |-> cmp(lhs, rhs), sig |-> 0, exp |-> 0]
    /\ pc' = "compared"
    /\ UNCHANGED <<base, lhs, rhs>>
    /\ UNCHANGED cache_vars

\* (a << k) >> k: the right shift of the value a left shift by k has just
\* returned, by the same k.
CallShrOut ==
    /\ pc = "ret"
    /\ op = "shl"
    /\ Returns("shl_shr", arg, shr(base, val(out), arg.exp))

\* a.succ().pred(): the predecessor of the value succ has just returned.
CallPredOut ==
    /\ pc = "ret"
    /\ op = "succ"
    /\ Returns("succ_pred", NoArg, pred(base, val(out)))

\* a.pred().succ(): the successor of the value pred has just returned.
CallSuccOut ==
    /\ pc = "ret"
    /\ op = "pred"
    /\ \E wrap \in BOOLEAN : Returns("pred_succ", NoArg, succ(base, val(out), wrap))

\* Largest margin the caller passes to fuzzy_eq.
MaxMargin == 4

Verdict(b) == [tag |-> IF b THEN "true" ELSE "false", sig |-> 0, exp |-> 0]

\* lhs.fuzzy_eq(rhs, margin): pure, its verdict is left in out.tag and the
\* margin in arg.sig.
CallFuzzyEq ==
    /\ pc = "call"
    /\ \E margin \in 0..MaxMargin :
          /\ op' = "fuzzy_eq"
          /\ arg' = BigNum(margin, 0)
          /\ out' = Verdict(fuzzy_eq(base, lhs, rhs, margin))
    /\ pc' = "compared"
    /\ UNCHANGED <<base, lhs, rhs>>
    /\ UNCHANGED cache_vars

\* BigNumBase::from(x) for an unsigned x, as `2 * a` converts its scalar.
from_u64(n, x) == new(n, x, 0)

\* r1 + r2 and r1 * r2 inside an expression: a panic of an operand ends the
\* evaluation.
add_r(n, r1, r2, wrap) ==
    IF r1.tag # "ok" THEN r1
    ELSE IF r2.tag # "ok" THEN r2
    ELSE add(n, val(r1), val(r2), wrap)

mul_r(n, r1, r2, wrap) ==
    IF r1.tag # "ok" THEN r1
    ELSE IF r2.tag # "ok" THEN r2
    ELSE mul(n, val(r1), val(r2), wrap)

\* let b = a + a + a + a + a;
five_adds(n, a, wrap) ==
    LET x == Ok(a.sig, a.exp)
    IN  add_r(n, add_r(n, add_r(n, add_r(n, x, x, wrap), x, wrap), x, wrap), x, wrap)

\* let c = 2 * a + 3 * a;
two_plus_three(n, a, wrap) ==
    LET x == Ok(a.sig, a.exp)
    IN  add_r(n, mul_r(n, from_u64(n, 2), x, wrap),
                 mul_r(n, from_u64(n, 3), x, wrap), wrap)

\* The body of fuzzy_eq_test for an expanded a = lhs: it binds b and c (left
\* in lhs and rhs, a itself in arg) and evaluates b.fuzzy_eq(c, 4).
FuzzyEqTest ==
    /\ pc = "call"
    /\ lhs.exp > 0
    /\ \E wrap \in BOOLEAN :
          LET b == five_adds(base, lhs, wrap)
              c == two_plus_three(base, lhs, wrap)
          IN  IF b.tag # "ok" THEN Returns("fuzzy_eq_test", lhs, b)
              ELSE IF c.tag # "ok" THEN Returns("fuzzy_eq_test", lhs, c)
              ELSE /\ op' = "fuzzy_eq_test"
                   /\ arg' = lhs
                   /\ lhs' = val(b)
                   /\ rhs' = val(c)
                   /\ out' = Verdict(fuzzy_eq(base, val(b), val(c), 4))
                   /\ pc' = "compared"
                   /\ UNCHANGED base
                   /\ UNCHANGED cache_vars

\* assert_eq_bignum!(x, y) on two evaluated expressions: a panic of either
\* ends the test, unequal pairs fail the assertion named `failed`.
assert_eq_bignum(x, y, failed, rest) ==
    IF x.tag # "ok" THEN x
    ELSE IF y.tag # "ok" THEN y
    ELSE IF ~eq(val(x), val(y)) THEN Panic(failed)
    ELSE rest

\* The first three assertions of the loop body of test_random_bin on n.
random_bin_sums(n, a, wrap) ==
    LET x == Ok(a.sig, a.exp)
        two_n == mul_r(n, from_u64(n, 2), x, wrap)
    IN  assert_eq_bignum(add_r(n, x, x, wrap),
                         mul_r(n, x, from_u64(n, 2), wrap), "assert_1",
        assert_eq_bignum(add_r(n, add_r(n, x, x, wrap), x, wrap),
                         mul_r(n, x, new(n, 3, 0), wrap), "assert_2",
        assert_eq_bignum(add_r(n, two_n, two_n, wrap),
                         mul_r(n, from_u64(n, 4), x, wrap), "assert_3",
        Verdict(TRUE))))

\* test_random_bin on the Binary value n = lhs.
RandomBinTest ==
    /\ pc = "call"
    /\ base = 2
    /\ \E wrap \in BOOLEAN :
          LET r == random_bin_sums(base, lhs, wrap)
          IN  /\ op' = "test_random_bin"
              /\ arg' = NoArg
              /\ out' = r
              /\ pc' = IF r.tag = "true" THEN "compared" ELSE "panicked"
    /\ UNCHANGED <<base, lhs, rhs>>
    /\ UNCHANGED cache_vars

(***************************************************************************)
(* The overrides of the built-in power-of-two bases: Binary shifts by      *)
(* exp bits, Octal by 3 * exp, Hexadecimal by 4 * exp, that is by          *)
(* log2(NUMBER) * exp.  `x << k` and `x >> k` of Rust on a word of `bits`  *)
(* bits: a shift by the width or more is an overflow, a panic in a build   *)
(* that checks it and a shift by k modulo the width in one that does not;  *)
(* bits shifted out on the left are lost.                                  *)
(***************************************************************************)
shl_bits(x, k, bits, wrap) ==
    IF k < bits THEN (x * 2^k) % 2^bits
    ELSE IF wrap THEN (x * 2^(k % bits)) % 2^bits
    ELSE Overflow

shr_bits(x, k, bits, wrap) ==
    IF k < bits THEN x \div 2^k
    ELSE IF wrap THEN x \div 2^(k % bits)
    ELSE Overflow

Value(x) == IF x < 0 THEN Panic("ShiftOverflow") ELSE Ok(x, 0)

\* Mutant: the shift counts exponents, not bits.
fast_rshift_unscaled(n, x, e, wrap) == Value(shr_bits(x, e, SigBits, wrap))

fast_rshift(n, x, e, wrap) == Value(shr_bits(x, ilog(n, 2) * e, SigBits, wrap))

fast_lshift(n, x, e, wrap) == Value(shl_bits(x, ilog(n, 2) * e, SigBits, wrap))

fast_rshift_u128(n, x, e, wrap) ==
    Value(shr_bits(x, ilog(n, 2) * e, 2 * SigBits, wrap))

fast_lshift_u128(n, x, e, wrap) ==
    Value(shl_bits(x, ilog(n, 2) * e, 2 * SigBits, wrap))

\* X_POWERS[exp]: the table of the powers that fit the word.
fast_pow(n, e) ==
    IF pow(n, e) <= U64MAX THEN Ok(pow(n, e), 0) ELSE Panic("IndexOutOfBounds")

\* sig.ilog2() of Binary (sig.ilog10() of Decimal).
fast_get_mag(n, x) == IF x = 0 THEN Panic("IlogOfZero") ELSE Ok(ilog(x, n), 0)

\* A call of one contract function of a built-in power-of-two base, with any
\* operand and any exponent up to exp_range().max().
CallFastShift ==
    /\ pc = "new"
    /\ is_power_of_two(base)
    /\ \E x \in 0..U64MAX, e \in 0..max_exp(base), wrap \in BOOLEAN :
          \/ Returns("rshift", BigNum(x, e), fast_rshift(base, x, e, wrap))
          \/ Returns("lshift", BigNum(x, e), fast_lshift(base, x, e, wrap))

CallFastShiftU128 ==
    /\ pc = "new"
    /\ is_power_of_two(base)
    /\ \E x \in 0..U128MAX, e \in 0..max_exp(base), wrap \in BOOLEAN :
          \/ Returns("rshift_u128", BigNum(x, e), fast_rshift_u128(base, x, e, wrap))
          \/ Returns("lshift_u128", BigNum(x, e), fast_lshift_u128(base, x, e, wrap))

CallFastPow ==
    /\ pc = "new"
    /\ \E e \in 0..max_exp(base) : Returns("pow", BigNum(0, e), fast_pow(base, e))

CallFastGetMag ==
    /\ pc = "new"
    /\ \E x \in 0..U64MAX : Returns("get_mag", BigNum(x, 0), fast_get_mag(base, x))

(***************************************************************************)
(* cache.rs.  BaseData::new accumulates the powers of the radix in a u128  *)
(* until one exceeds u64::MAX; a record with tag "ok" is the value built,  *)
(* any other tag a panic.  powers[i] of the program is powers[i + 1] here. *)
(***************************************************************************)
RECURSIVE powers_loop(_, _, _)
powers_loop(b, sig, powers) ==
    IF sig <= U64MAX
    THEN powers_loop(b, (sig * b) % (U128MAX + 1), Append(powers, sig % (U64MAX + 1)))
    ELSE [powers |-> powers, sig |-> sig, exp |-> Len(powers)]

BaseData_new(b) ==
    IF b \in {2, 8, 10, 16} THEN Panic("InvalidConstruction")
    ELSE LET l == powers_loop(b, 1, << >>)
             max == l.sig \div b
             min == max \div b
         IN  [tag |-> "ok",
              base |-> b,
              powers |-> l.powers,
              exp_range |-> <<l.exp - 2, l.exp - 1>>,
              sig_range |-> <<min % (U64MAX + 1), (max - 1) % (U64MAX + 1)>>]

\* BaseData::pow: powers[exp as usize], a panic past the end of the table.
BaseData_pow(d, e) ==
    IF e < Len(d.powers) THEN Ok(d.powers[e + 1], 0) ELSE Panic("IndexOutOfBounds")

\* The scan of get_cached_mag_arbitrary: the index of the first power that
\* exceeds sig, less one; a panic when no power of the table exceeds sig.
mag_arbitrary(d, sig) ==
    LET found == {i \in 0..(Len(d.powers) - 1) : sig < d.powers[i + 1]}
    IN  IF found = {} THEN Panic("MagNotFound")
        ELSE Ok(saturating_sub(CHOOSE i \in found : \A j \in found : i <= j, 1), 0)

\* HashMap::entry(k).or_insert(v).
or_insert(map, k, v) == IF k \in DOMAIN map THEN map ELSE (k :> v) @@ map

\* Mutant: the mutex lets a second thread in.
lock_available_always(h) == TRUE

\* Mutex::lock blocks while another thread holds the guard.
lock_available(h) == h = NoThread

\* The calls the threads make: ensure_cached!(r) and the four queries.
Requests ==
    {Request("ensure_cached", r, 0, FALSE) : r \in Radixes}
        \cup {Request("get_cached_pow", r, e, FALSE) : r \in Radixes, e \in 0..SigBits}
        \cup {Request("get_cached_mag_arbitrary", r, x, FALSE) : r \in Radixes, x \in 0..U64MAX}
        \cup {Request("get_cached_exp_range", r, 0, FALSE) : r \in Radixes}
        \cup {Request("get_cached_sig_range", r, 0, FALSE) : r \in Radixes}

\* BASEDATA_CACHE.lock().expect(..), the first step of every call: a thread
\* that finds the mutex poisoned panics, any other takes the guard.
CacheLock ==
    \E t \in Threads, req \in Requests :
       /\ tpc[t] = "idle"
       /\ lock_available(holder)
       /\ treq' = [treq EXCEPT ![t] =
                      Request(req.fn, req.base, req.x, req.base \in DOMAIN cache)]
       /\ IF poisoned
          THEN /\ tret' = [tret EXCEPT ![t] = Panic("LockPoisoned")]
               /\ UNCHANGED <<cache, holder, poisoned, tpc>>
          ELSE /\ holder' = t
               /\ tpc' = [tpc EXCEPT ![t] = "locked"]
               /\ tret' = [tret EXCEPT ![t] = Ok(0, 0)]
               /\ UNCHANGED <<cache, poisoned>>
       /\ UNCHANGED arith_vars

\* The body of a call of thread t that holds the guard and computed r: a
\* value is kept until the guard is dropped; a panic unwinds through the
\* guard, which poisons the mutex and releases it.
Body(t, r) ==
    /\ tret' = [tret EXCEPT ![t] = r]
    /\ IF r.tag = "ok"
       THEN /\ tpc' = [tpc EXCEPT ![t] = "unlock"]
            /\ UNCHANGED <<holder, poisoned>>
       ELSE /\ tpc' = [tpc EXCEPT ![t] = "idle"]
            /\ holder' = NoThread
            /\ poisoned' = TRUE
    /\ UNCHANGED <<treq, arith_vars>>

\* basedata_val!: the entry of the radix, a panic when there is none.
basedata_val(map, r) == IF r \in DOMAIN map THEN map[r] ELSE Panic("CacheMiss")

\* ensure_cached!: BaseData::new(r) is evaluated before or_insert is called,
\* with the guard held.
EnsureCached ==
    \E t \in Threads :
       /\ tpc[t] = "locked"
       /\ treq[t].fn = "ensure_cached"
       /\ LET v == BaseData_new(treq[t].base)
          IN  IF v.tag = "ok"
              THEN /\ cache' = or_insert(cache, treq[t].base, v)
                   /\ Body(t, Ok(0, 0))
              ELSE /\ UNCHANGED cache
                   /\ Body(t, Panic(v.tag))

GetCachedPow ==
    \E t \in Threads :
       /\ tpc[t] = "locked"
       /\ treq[t].fn = "get_cached_pow"
       /\ LET d == basedata_val(cache, treq[t].base)
          IN  Body(t, IF d.tag = "ok" THEN BaseData_pow(d, treq[t].x) ELSE Panic(d.tag))
       /\ UNCHANGED cache

GetCachedMagArbitrary ==
    \E t \in Threads :
       /\ tpc[t] = "locked"
       /\ treq[t].fn = "get_cached_mag_arbitrary"
       /\ LET d == basedata_val(cache, treq[t].base)
          IN  Body(t, IF d.tag = "ok" THEN mag_arbitrary(d, treq[t].x) ELSE Panic(d.tag))
       /\ UNCHANGED cache

\* The ranges are returned as the pair (sig, exp) = (min, max).
GetCachedExpRange ==
    \E t \in Threads :
       /\ tpc[t] = "locked"
       /\ treq[t].fn = "get_cached_exp_range"
       /\ LET d == basedata_val(cache, treq[t].base)
          IN  Body(t, IF d.tag = "ok" THEN Ok(d.exp_range[1], d.exp_range[2])
                      ELSE Panic(d.tag))
       /\ UNCHANGED cache

GetCachedSigRange ==
    \E t \in Threads :
       /\ tpc[t] = "locked"
       /\ treq[t].fn = "get_cached_sig_range"
       /\ LET d == basedata_val(cache, treq[t].base)
          IN  Body(t, IF d.tag = "ok" THEN Ok(d.sig_range[1], d.sig_range[2])
                      ELSE Panic(d.tag))
       /\ UNCHANGED cache

\* std::mem::drop(lock): the call returns.
CacheUnlock ==
    \E t \in Threads :
       /\ tpc[t] = "unlock"
       /\ tpc' = [tpc EXCEPT ![t] = "idle"]
       /\ holder' = NoThread
       /\ UNCHANGED <<cache, poisoned, treq, tret, arith_vars>>

StoreLhs ==
    /\ pc = "ret"
    /\ lhs' = val(out)
    /\ pc' = "call"
    /\ op' = "store"
    /\ arg' = NoArg
    /\ UNCHANGED <<base, rhs, out>>
    /\ UNCHANGED cache_vars

StoreRhs ==
    /\ pc = "ret"
    /\ rhs' = val(out)
    /\ pc' = "call"
    /\ op' = "store"
    /\ arg' = NoArg
    /\ UNCHANGED <<base, lhs, out>>
    /\ UNCHANGED cache_vars

Next ==
    \/ CallNew
    \/ CallNewRaw
    \/ CallAdd
    \/ CallSub
    \/ CallMul
    \/ CallDiv
    \/ CallShl
    \/ CallShr
    \/ CallSucc
    \/ CallPred
    \/ CallCmp
    \/ StoreLhs
    \/ StoreRhs

Spec == Init /\ [][Next]_vars

(***************************************************************************)
(* Specifications of one operation each: the operands are any two values   *)
(* the caller of Spec can hold, lhs just stored.                           *)
(***************************************************************************)
InitOperands ==
    /\ base \in Radixes
    /\ CacheInit
    /\ lhs \in ValidSet(base)
    /\ rhs \in ValidSet(base)
    /\ arg = NoArg
    /\ op = "store"
    /\ out = Ok(lhs.sig, lhs.exp)
    /\ pc = "call"

\* The operations of one operand: lhs is any value, rhs is not read.
InitOperand ==
    /\ base \in Radixes
    /\ CacheInit
    /\ lhs \in ValidSet(base)
    /\ rhs = Zero
    /\ arg = NoArg
    /\ op = "store"
    /\ out = Ok(lhs.sig, lhs.exp)
    /\ pc = "call"

SpecNew == Init /\ [][CallNew \/ CallNewRaw]_vars

SpecAdd == InitOperands /\ [][CallAdd]_vars

SpecSub == InitOperands /\ [][CallSub]_vars

SpecMul == InitOperands /\ [][CallMul]_vars

SpecDiv == InitOperands /\ [][CallDiv]_vars

SpecCmp == InitOperands /\ [][CallCmp]_vars

\* Sums and products of the same operands.
SpecArith == InitOperands /\ [][CallAdd \/ CallMul]_vars

\* Shifts of lhs, and the right shift that undoes a left shift.
SpecShift == InitOperand /\ [][CallShl \/ CallShr \/ CallShrOut]_vars

\* Successor and predecessor of lhs, and each applied to the other's result.
SpecStep ==
    InitOperand /\ [][CallSucc \/ CallPred \/ CallPredOut \/ CallSuccOut]_vars

SpecFuzzy == InitOperands /\ [][CallFuzzyEq]_vars

SpecFuzzyTest == InitOperand /\ [][FuzzyEqTest]_vars

SpecRandomBin == InitOperand /\ [][RandomBinTest]_vars

\* The contract functions of the built-in bases.
SpecBase ==
    Init /\ [][CallFastShift \/ CallFastShiftU128 \/ CallFastPow \/ CallFastGetMag]_vars

\* The threads of a program that call the cache, in any interleaving.
InitCache ==
    /\ base = 2
    /\ CacheInit
    /\ lhs = Zero
    /\ rhs = Zero
    /\ arg = NoArg
    /\ op = "init"
    /\ out = Ok(0, 0)
    /\ pc = "new"

SpecCache ==
    InitCache
        /\ [][CacheLock \/ EnsureCached \/ GetCachedPow \/ GetCachedMagArbitrary
              \/ GetCachedExpRange \/ GetCachedSigRange \/ CacheUnlock]_vars

(***************************************************************************)
(* C1.  Closure of the two canonical forms: every value an operation       *)
(* returns, and so every operand the caller ever holds, satisfies          *)
(* sig <= maxSig /\ (exp = 0 \/ sig >= minSig).                            *)
(***************************************************************************)
C1_Closure ==
    /\ is_valid(base, lhs.sig, lhs.exp)
    /\ is_valid(base, rhs.sig, rhs.exp)
    /\ (out.tag = "ok" /\ op # "cmp") => is_valid(base, out.sig, out.exp)

\* A subtraction of expanded operands returned a renormalized expanded value.
C1_Witness ==
    /\ pc = "ret"
    /\ op = "sub"
    /\ rhs.exp > 0
    /\ out.exp > 0
    /\ out.exp < lhs.exp


(***************************************************************************)
(* Exact comparison of represented values, in unbounded arithmetic.        *)
(* ScaledLeq(n, s1, e1, s2, e2) is s1 * n^e1 <= s2 * n^e2 for significands *)
(* up to the double-width word; n^d exceeds every such significand once d  *)
(* passes PowCap, so no power beyond n^PowCap is computed.                 *)
(***************************************************************************)
PowCap == 2 * SigBits + 1

ScaledLeq(n, s1, e1, s2, e2) ==
    IF e1 >= e2
    THEN LET d == e1 - e2
         IN  s1 = 0 \/ (d <= PowCap /\ pow(n, d) <= s2 \div s1)
    ELSE LET d == e2 - e1
         IN  \/ s1 = 0
             \/ s2 > 0 /\ d > PowCap
             \/ d <= PowCap /\ (s1 + pow(n, d) - 1) \div pow(n, d) <= s2

ScaledEq(n, s1, e1, s2, e2) ==
    ScaledLeq(n, s1, e1, s2, e2) /\ ScaledLeq(n, s2, e2, s1, e1)

ScaledLess(n, s1, e1, s2, e2) == ~ScaledLeq(n, s2, e2, s1, e1)

\* v is the greatest valid instance whose value does not exceed the quotient
\* (sN * n^eN) / (sD * n^eD): v is valid and value(v) <= q < value(v) + n^v.exp,
\* the value of the next valid instance.
IsFloorOf(n, v, sN, eN, sD, eD) ==
    /\ is_valid(n, v.sig, v.exp)
    /\ ScaledLeq(n, v.sig * sD, v.exp + eD, sN, eN)
    /\ ScaledLess(n, sN, eN, (v.sig + 1) * sD, v.exp + eD)

(***************************************************************************)
(* C2.  new preserves the value: for sig <= maxSig and any exp (sig = 0    *)
(* with exp > 0 excluded), new(sig, exp) returns the valid pair (s, e)     *)
(* with s * NUMBER^e = sig * NUMBER^exp exactly.                           *)
(***************************************************************************)
C2_NewPreservesValue ==
    (op = "new" /\ arg.sig <= max_sig(base) /\ ~(arg.sig = 0 /\ arg.exp > 0))
        => /\ out.tag = "ok"
           /\ is_valid(base, out.sig, out.exp)
           /\ ScaledEq(base, out.sig, out.exp, arg.sig, arg.exp)

(***************************************************************************)
(* C9.  new fails exactly when sig = 0 with exp > 0 (InvalidConstruction)  *)
(* or sig > maxSig with exp = u64::MAX (ArithmeticOverflow); when          *)
(* sig > maxSig and exp < u64::MAX it returns (sig / NUMBER, exp + 1),     *)
(* whose significand lies in [minSig, maxSig].                             *)
(***************************************************************************)
C9_NewFailures ==
    op = "new" =>
        /\ out.tag = "InvalidConstruction" <=> (arg.sig = 0 /\ arg.exp > 0)
        /\ out.tag = "ArithmeticOverflow"
               <=> (arg.sig > max_sig(base) /\ arg.exp = EXPMAX)
        /\ out.tag \in {"ok", "InvalidConstruction", "ArithmeticOverflow"}
        /\ (arg.sig > max_sig(base) /\ arg.exp < EXPMAX)
               => /\ out = Ok(arg.sig \div base, arg.exp + 1)
                  /\ out.sig >= min_sig(base)
                  /\ out.sig <= max_sig(base)

\* new was called with a significand above maxSig and shifted it once.
C9_Witness ==
    /\ op = "new"
    /\ arg.sig > max_sig(base)
    /\ arg.exp < EXPMAX
    /\ out.tag = "ok"
    /\ out.exp = arg.exp + 1

(***************************************************************************)
(* Reference arithmetic, unbounded.                                        *)
(***************************************************************************)
\* floor(x / n^k)
FloorDivPow(n, x, k) == IF k > PowCap THEN 0 ELSE x \div pow(n, k)

RefLess(a, b) == a.exp < b.exp \/ (a.exp = b.exp /\ a.sig < b.sig)

RefMax(a, b) == IF RefLess(a, b) THEN b ELSE a

RefMin(a, b) == IF RefLess(a, b) THEN a ELSE b

Norm(n, s, e) == IF s <= max_sig(n) THEN Ok(s, e) ELSE Ok(s \div n, e + 1)

RefAdd(n, a, b) ==
    LET max == RefMax(a, b)
        min == RefMin(a, b)
    IN  Norm(n, max.sig + FloorDivPow(n, min.sig, max.exp - min.exp), max.exp)

\* a.sig - floor(b.sig / NUMBER^(a.exp - b.exp)), for a >= b
RefSubSig(n, a, b) == a.sig - FloorDivPow(n, b.sig, a.exp - b.exp)

(***************************************************************************)
(* C3.  Add matches the reference sum: with (max, min) the operands        *)
(* ordered and max.exp below u64::MAX, a + b is                            *)
(* Norm(max.sig + floor(min.sig / NUMBER^shift), max.exp).                 *)
(***************************************************************************)
C3_AddMatchesReference ==
    (op = "add" /\ RefMax(lhs, rhs).exp < EXPMAX)
        => out = RefAdd(base, lhs, rhs)

\* The 64-bit addition wrapped in a base whose maxSig is below u64::MAX.
C3_Witness ==
    /\ op = "add"
    /\ max_sig(base) < U64MAX
    /\ lhs.exp > 0
    /\ lhs.exp = rhs.exp
    /\ lhs.sig + rhs.sig > U64MAX
    /\ out.tag = "ok"
    /\ out.exp = lhs.exp + 1

(***************************************************************************)
(* C4.  Sub preserves the value of the significand difference: for a >= b  *)
(* and d = a.sig - floor(b.sig / NUMBER^(a.exp - b.exp)), a - b is the     *)
(* valid pair whose value is d * NUMBER^a.exp; d = 0 yields (0, 0).        *)
(***************************************************************************)
C4_SubPreservesValue ==
    (op = "sub" /\ ~RefLess(lhs, rhs))
        => /\ out.tag = "ok"
           /\ is_valid(base, out.sig, out.exp)
           /\ ScaledEq(base, out.sig, out.exp, RefSubSig(base, lhs, rhs), lhs.exp)
           /\ RefSubSig(base, lhs, rhs) = 0 => out = Ok(0, 0)

(***************************************************************************)
(* C5.  Division by zero always fails: lhs / (0, 0) fails with             *)
(* DivisionByZero for every valid lhs, the canonical zero included.        *)
(***************************************************************************)
C5_DivisionByZeroFails ==
    (op = "div" /\ rhs = Zero) => out.tag = "DivisionByZero"

(***************************************************************************)
(* C6.  Div matches the reference quotient: for b # 0, a / b is the        *)
(* greatest valid instance whose value does not exceed value(a)/value(b);  *)
(* it is 0 when a < b, 1 when a = b, floor(a.sig / b.sig) when a is        *)
(* compact, and for expanded a an expanded result has a significand of     *)
(* magnitude minExp.                                                       *)
(***************************************************************************)
C6_DivMatchesReference ==
    (op = "div" /\ rhs # Zero)
        => /\ out.tag = "ok"
           /\ IsFloorOf(base, val(out), lhs.sig, lhs.exp, rhs.sig, rhs.exp)
           /\ RefLess(lhs, rhs) => out = Ok(0, 0)
           /\ lhs = rhs => out = Ok(1, 0)
           /\ (lhs.exp = 0 /\ ~RefLess(lhs, rhs))
                 => out = Ok(lhs.sig \div rhs.sig, 0)
           /\ out.exp > 0 => ilog(out.sig, base) = min_exp(base)

\* An expanded dividend gave an expanded quotient that lost magnitude.
C6_Witness ==
    /\ op = "div"
    /\ lhs.exp > rhs.exp
    /\ rhs.exp > 0
    /\ lhs.sig < rhs.sig
    /\ out.tag = "ok"
    /\ out.exp > 0

(***************************************************************************)
(* C7.  Mul matches the reference product: when the exponent of the        *)
(* product fits the exponent word, a * b never fails with                  *)
(* NormalizationInvariantViolation and is the greatest valid instance      *)
(* whose value does not exceed value(a) * value(b).                        *)
(***************************************************************************)
RefMulExp(n, a, b) ==
    a.exp + b.exp
        + (IF a.sig * b.sig > max_sig(n)
           THEN ilog(a.sig * b.sig, n) - min_exp(n) ELSE 0)

C7_MulMatchesReference ==
    (op = "mul" /\ RefMulExp(base, lhs, rhs) <= EXPMAX)
        => /\ out.tag = "ok"
           /\ IsFloorOf(base, val(out), lhs.sig * rhs.sig, lhs.exp + rhs.exp, 1, 0)

\* The double-width product exceeded maxSig and was shifted back.
C7_Witness ==
    /\ op = "mul"
    /\ lhs.exp > 0
    /\ rhs.exp > 0
    /\ out.tag = "ok"
    /\ out.exp > lhs.exp + rhs.exp

(***************************************************************************)
(* C8.  Ordering agrees with the represented value: a < b iff              *)
(* a.sig * NUMBER^a.exp < b.sig * NUMBER^b.exp, a = b iff the values are   *)
(* equal (so a value has one valid representation), and compact values are *)
(* ordered as their significands.                                          *)
(***************************************************************************)
C8_OrderAgreesWithValue ==
    op = "cmp"
        => /\ out.tag = "Less"
                 <=> ScaledLess(base, lhs.sig, lhs.exp, rhs.sig, rhs.exp)
           /\ out.tag = "Equal"
                 <=> ScaledEq(base, lhs.sig, lhs.exp, rhs.sig, rhs.exp)
           /\ out.tag = "Equal" <=> lhs = rhs
           /\ out.tag = "Less" <=> RefLess(lhs, rhs)
           /\ (lhs.exp = 0 /\ rhs.exp = 0)
                 => (out.tag = "Less" <=> lhs.sig < rhs.sig)

\* A compact value with the larger significand compared below an expanded one.
C8_Witness ==
    /\ op = "cmp"
    /\ lhs.exp = 0
    /\ rhs.exp > 0
    /\ lhs.sig > rhs.sig
    /\ out.tag = "Less"

(***************************************************************************)
(* C10.  Subtraction underflow: a - b fails with Underflow iff a < b in    *)
(* the (exp, sig) ordering; whenever a >= b it returns a value.            *)
(***************************************************************************)
C10_SubUnderflow ==
    op = "sub"
        => /\ out.tag = "Underflow" <=> RefLess(lhs, rhs)
           /\ ~RefLess(lhs, rhs) => out.tag = "ok"

\* Equal operands were subtracted and gave a value.
C10_Witness ==
    /\ op = "sub"
    /\ lhs = rhs
    /\ lhs.exp > 0
    /\ out = Ok(0, 0)

(***************************************************************************)
(* C11.  Commutativity: whatever a + b returns (a value or a panic), b + a *)
(* returns the same in the same build, and likewise a * b and b * a; the   *)
(* returned pairs are equal in sig and in exp.                             *)
(***************************************************************************)
C11_Commutativity ==
    /\ op = "add" =>
          \A w \in BOOLEAN :
             add(base, lhs, rhs, w) = out => add(base, rhs, lhs, w) = out
    /\ op = "mul" =>
          \A w \in BOOLEAN :
             mul(base, lhs, rhs, w) = out => mul(base, rhs, lhs, w) = out

\* A compact and an expanded operand, in this order, with a product that is
\* neither of them.
C11_Witness ==
    /\ pc = "ret"
    /\ op = "mul"
    /\ lhs.exp = 0
    /\ lhs.sig > 1
    /\ rhs.exp > 0
    /\ out.exp > rhs.exp
    /\ out.sig # rhs.sig

(***************************************************************************)
(* C12.  Identity elements: a + 0 returns a, a * 1 and 1 * a return a,     *)
(* a * 0 and 0 * a return the canonical zero (0, 0), for every valid a,    *)
(* compact or expanded.                                                    *)
(***************************************************************************)
C12_Identities ==
    /\ (op = "add" /\ rhs = Zero) => out = Ok(lhs.sig, lhs.exp)
    /\ (op = "mul" /\ rhs = BigNum(1, 0)) => out = Ok(lhs.sig, lhs.exp)
    /\ (op = "mul" /\ lhs = BigNum(1, 0)) => out = Ok(rhs.sig, rhs.exp)
    /\ (op = "mul" /\ (lhs = Zero \/ rhs = Zero)) => out = Ok(0, 0)

\* An expanded value multiplied by zero.
C12_Witness ==
    /\ pc = "ret"
    /\ op = "mul"
    /\ rhs = Zero
    /\ lhs.exp > 0
    /\ out = Ok(0, 0)

(***************************************************************************)
(* C13.  Precision loss of subtraction, in every radix: (maxSig, 1) minus  *)
(* (maxSig, 0) is new(maxSig - floor(maxSig / NUMBER), 1); the result      *)
(* stays at exponent 1 and its significand is still at least minSig.       *)
(***************************************************************************)
C13_SubPrecisionLoss ==
    (/\ op = "sub"
     /\ lhs = BigNum(max_sig(base), 1)
     /\ rhs = BigNum(max_sig(base), 0))
    => /\ out = new(base, max_sig(base) - max_sig(base) \div base, 1)
       /\ out.tag = "ok"
       /\ out.exp = 1
       /\ out.sig >= min_sig(base)

\* The subtraction of the scenario has returned, in a radix that is not 2.
C13_Witness ==
    /\ pc = "ret"
    /\ op = "sub"
    /\ base # 2
    /\ lhs = BigNum(max_sig(base), 1)
    /\ rhs = BigNum(max_sig(base), 0)
    /\ out.sig < max_sig(base)

(***************************************************************************)
(* C14.  Shift round trip: for every valid a other than zero and every k   *)
(* for which a << k returns, (a << k) >> k returns a, with the same sig    *)
(* and exp, also when a << k has promoted a compact a to expanded form.    *)
(***************************************************************************)
C14_ShiftRoundTrip ==
    (op = "shl_shr" /\ lhs # Zero) => out = Ok(lhs.sig, lhs.exp)

\* A compact a below minSig whose left shift went past the compact range.
C14_Witness ==
    /\ pc = "ret"
    /\ op = "shl_shr"
    /\ lhs.exp = 0
    /\ lhs.sig > 0
    /\ lhs.sig < min_sig(base)
    /\ arg.exp > min_exp(base) - get_mag(base, lhs.sig)
    /\ out = Ok(lhs.sig, lhs.exp)

(***************************************************************************)
(* C15.  Left shift multiplies by NUMBER^k exactly: a << k fails only      *)
(* because the exponent would overflow, and otherwise returns the valid    *)
(* pair of value value(a) * NUMBER^k: (sig, exp + k) for an expanded a;    *)
(* for a compact a the compact pair (sig * NUMBER^k, 0) while the scaled   *)
(* significand has magnitude below minExp, and otherwise a pair whose      *)
(* significand has magnitude minExp.                                       *)
(***************************************************************************)
C15_ShlExact ==
    op = "shl" =>
       LET k == arg.exp
       IN  /\ out.tag \in {"ok", "ArithmeticOverflow"}
           /\ out.tag = "ArithmeticOverflow" => lhs.exp + k > EXPMAX
           /\ out.tag = "ok" =>
                 /\ is_valid(base, out.sig, out.exp)
                 /\ ScaledEq(base, out.sig, out.exp, lhs.sig, lhs.exp + k)
                 /\ lhs.exp > 0 => out = Ok(lhs.sig, lhs.exp + k)
                 /\ (lhs.exp = 0 /\ lhs.sig * pow(base, k) < min_sig(base))
                       => out = Ok(lhs.sig * pow(base, k), 0)
                 /\ (lhs.exp = 0 /\ lhs.sig * pow(base, k) >= min_sig(base))
                       => out.sig >= min_sig(base)

(***************************************************************************)
(* C16.  Right shift never silently yields zero: a >> 0 returns a; for     *)
(* k > 0, a >> k returns floor(value(a) / NUMBER^k) when value(a) is at    *)
(* least NUMBER^k, as (sig, exp - k) when exp >= k and as the compact      *)
(* (sig / NUMBER^(k - exp), 0) otherwise, and fails when value(a) is       *)
(* below NUMBER^k.                                                         *)
(***************************************************************************)
C16_ShrFloorOrFail ==
    op = "shr" =>
       LET k == arg.exp
           reaches == ScaledLeq(base, 1, k, lhs.sig, lhs.exp)
       IN  /\ k = 0 => out = Ok(lhs.sig, lhs.exp)
           /\ (k > 0 /\ reaches /\ lhs.exp >= k) => out = Ok(lhs.sig, lhs.exp - k)
           /\ (k > 0 /\ reaches /\ lhs.exp < k)
                 => /\ out = Ok(lhs.sig \div pow(base, k - lhs.exp), 0)
                    /\ out.sig > 0
           /\ (k > 0 /\ ~reaches) => out.tag # "ok"
           /\ out.tag = "ok" => is_valid(base, out.sig, out.exp)

\* A compact value too small for the shift: the shift has failed.
C16_Witness ==
    /\ pc = "panicked"
    /\ op = "shr"
    /\ lhs.exp = 0
    /\ lhs.sig > 0
    /\ lhs.sig < pow(base, arg.exp)

(***************************************************************************)
(* C17.  Succ and Pred are mutually inverse: pred(succ(a)) returns a for   *)
(* every valid a other than (maxSig, u64::MAX), and succ(pred(a)) returns  *)
(* a for every valid a other than the canonical zero, the rollovers at     *)
(* maxSig and at minSig included.                                          *)
(***************************************************************************)
MaxValue(n) == BigNum(max_sig(n), EXPMAX)

C17_SuccPredInverse ==
    /\ (op = "succ_pred" /\ lhs # MaxValue(base)) => out = Ok(lhs.sig, lhs.exp)
    /\ (op = "pred_succ" /\ lhs # Zero) => out = Ok(lhs.sig, lhs.exp)
    /\ (op = "succ" /\ lhs # MaxValue(base)) => out.tag = "ok"
    /\ (op = "pred" /\ lhs # Zero) => out.tag = "ok"

\* pred has undone a successor that rolled over from maxSig.
C17_Witness ==
    /\ pc = "ret"
    /\ op = "succ_pred"
    /\ lhs.sig = max_sig(base)
    /\ lhs.exp > 0
    /\ out = Ok(lhs.sig, lhs.exp)

(***************************************************************************)
(* C18.  Succ and Pred step to the adjacent valid value: below the         *)
(* maximum, succ(a) is valid, greater than a, with no valid instance       *)
(* strictly between (from (maxSig, e) it is (minSig, e + 1)); for a # 0,   *)
(* pred(a) is valid, below a, with no valid instance strictly between      *)
(* (from (minSig, e), e > 0, it is (maxSig, e - 1)); pred of the canonical *)
(* zero fails.                                                             *)
(***************************************************************************)
NoneBetween(n, lo, hi) ==
    \A v \in ValidSet(n) : ~(lt(lo, v) /\ lt(v, hi))

C18_AdjacentValue ==
    /\ (op = "succ" /\ lhs # MaxValue(base)) =>
          /\ out.tag = "ok"
          /\ is_valid(base, out.sig, out.exp)
          /\ lt(lhs, val(out))
          /\ NoneBetween(base, lhs, val(out))
          /\ lhs.sig = max_sig(base) => out = Ok(min_sig(base), lhs.exp + 1)
    /\ (op = "pred" /\ lhs # Zero) =>
          /\ out.tag = "ok"
          /\ is_valid(base, out.sig, out.exp)
          /\ lt(val(out), lhs)
          /\ NoneBetween(base, val(out), lhs)
          /\ (lhs.exp > 0 /\ lhs.sig = min_sig(base))
                => out = Ok(max_sig(base), lhs.exp - 1)
    /\ (op = "pred" /\ lhs = Zero) => out.tag = "PredOfZero"

\* The predecessor of an expanded value at minSig.
C18_Witness ==
    /\ pc = "ret"
    /\ op = "pred"
    /\ lhs.exp > 1
    /\ lhs.sig = min_sig(base)
    /\ out = Ok(max_sig(base), lhs.exp - 1)

(***************************************************************************)
(* C19.  Accumulated rounding stays within one unit per operation: for     *)
(* every valid expanded a, b = a + a + a + a + a and c = 2 * a + 3 * a     *)
(* are fuzzy-equal within the margin 4.                                    *)
(***************************************************************************)
C19_FuzzyFiveTimes ==
    op = "fuzzy_eq_test" => out.tag = "true"

\* C19 for the operands whose fivefold is representable: 5 * a does not
\* exceed the largest valid value (maxSig at the largest exponent).
FiveFits(n, a) == ScaledLeq(n, 5 * a.sig, a.exp, max_sig(n), EXPMAX)

C19_FuzzyFiveTimesInRange ==
    (op = "fuzzy_eq_test" /\ FiveFits(base, arg)) => out.tag = "true"

\* b and c differ and are fuzzy-equal.
C19_Witness ==
    /\ pc = "compared"
    /\ op = "fuzzy_eq_test"
    /\ FiveFits(base, arg)
    /\ lhs # rhs
    /\ out.tag = "true"

(***************************************************************************)
(* C20.  fuzzy_eq(a, b, margin) is symmetric in a and b and holds iff,     *)
(* with (min, max) the operands ordered, either the exponents are equal    *)
(* and max.sig - min.sig <= margin, or max.exp = min.exp + 1 and both      *)
(* max.sig - margin <= minSig and min.sig + margin >= maxSig (saturating); *)
(* it is false when the exponents differ by 2 or more, and                 *)
(* a.fuzzy_eq(a, 0) is true.                                               *)
(***************************************************************************)
RefFuzzy(n, a, b, margin) ==
    LET mn == RefMin(a, b)
        mx == RefMax(a, b)
    IN  \/ mn.exp = mx.exp /\ mx.sig - mn.sig <= margin
        \/ /\ mx.exp = mn.exp + 1
           /\ mx.sig - margin <= min_sig(n)
           /\ mn.sig + margin >= max_sig(n)

C20_FuzzyEq ==
    op = "fuzzy_eq" =>
       /\ out = Verdict(RefFuzzy(base, lhs, rhs, arg.sig))
       /\ out = Verdict(fuzzy_eq(base, rhs, lhs, arg.sig))
       /\ (lhs.exp >= rhs.exp + 2 \/ rhs.exp >= lhs.exp + 2) => out.tag = "false"
       /\ (lhs = rhs /\ arg.sig = 0) => out.tag = "true"

\* Fuzzy-equal across an exponent boundary, the sum saturating.
C20_Witness ==
    /\ pc = "compared"
    /\ op = "fuzzy_eq"
    /\ out.tag = "true"
    /\ lhs.exp = rhs.exp + 1
    /\ rhs.sig + arg.sig > U64MAX
    /\ lhs.sig > min_sig(base)

(***************************************************************************)
(* C21.  In the Binary base repeated addition is scalar multiplication,    *)
(* exactly: for every valid n with exp at most half the largest exponent,  *)
(* n + n = n * 2, n + n + n = n * 3 and 2 * n + 2 * n = 4 * n as           *)
(* (sig, exp) pairs, so the three assertions pass.                         *)
(***************************************************************************)
C21_BinaryRepeatedAdd ==
    (op = "test_random_bin" /\ lhs.exp <= EXPMAX \div 2) => out.tag = "true"

\* The assertions passed on an expanded n whose tripling carries twice.
C21_Witness ==
    /\ pc = "compared"
    /\ op = "test_random_bin"
    /\ lhs.exp > 0
    /\ lhs.exp <= EXPMAX \div 2
    /\ 3 * lhs.sig > 2 * U64MAX + 1

(***************************************************************************)
(* C22.  Base contract invariants, for the ranges a construction reads:    *)
(* exp_range is (minExp, minExp + 1) with minExp > 0, minSig is            *)
(* NUMBER^minExp, maxSig is NUMBER^(minExp + 1) - 1, and minSig * NUMBER   *)
(* exceeds u64::MAX.                                                       *)
(***************************************************************************)
RangesShape(n) ==
    /\ max_exp(n) = min_exp(n) + 1
    /\ min_exp(n) > 0
    /\ min_sig(n) = pow(n, min_exp(n))
    /\ max_sig(n) = pow(n, min_exp(n) + 1) - 1

C22_BaseContract ==
    op \in {"new", "new_raw"} =>
       /\ RangesShape(base)
       /\ min_sig(base) * base > U64MAX

(***************************************************************************)
(* C23.  The overrides of the built-in bases refine the generic contract:  *)
(* for every exponent e up to exp_range().max() and every operand in       *)
(* range, rshift returns floor(x / NUMBER^e), lshift returns x * NUMBER^e  *)
(* (when that fits the word), pow returns NUMBER^e (when that fits the     *)
(* word), get_mag the highest m with NUMBER^m <= x (for x > 0), and the    *)
(* u128 variants the same on double-width operands.                        *)
(***************************************************************************)
C23_FastPathRefines ==
    LET x == arg.sig
        e == arg.exp
        p == pow(base, e)
    IN  /\ op = "rshift" => out = Ok(x \div p, 0)
        /\ (op = "lshift" /\ x * p <= U64MAX) => out = Ok(x * p, 0)
        /\ op = "rshift_u128" => out = Ok(x \div p, 0)
        /\ (op = "lshift_u128" /\ x * p <= U128MAX) => out = Ok(x * p, 0)
        /\ (op = "pow" /\ p <= U64MAX) => out = Ok(p, 0)
        /\ (op = "get_mag" /\ x > 0) =>
              /\ out.tag = "ok"
              /\ pow(base, out.sig) <= x
              /\ x < pow(base, out.sig + 1)

\* A thread is inside a call, between taking the guard and dropping it.
InCall(t) == tpc[t] # "idle"

\* What a query that reads the entry d returns.
Stored(req, d) ==
    CASE req.fn = "get_cached_exp_range" -> Ok(d.exp_range[1], d.exp_range[2])
      [] req.fn = "get_cached_sig_range" -> Ok(d.sig_range[1], d.sig_range[2])
      [] req.fn = "get_cached_pow" -> Ok(d.powers[req.x + 1], 0)
      [] OTHER -> Ok(0, 0)

(***************************************************************************)
(* C24.  Get-or-insert is idempotent under concurrency: in every           *)
(* interleaving of ensure_cached and query calls at most one thread is     *)
(* inside a call, and it is the holder of the lock; the map has at most    *)
(* one entry per radix; an entry, once stored, is never replaced, modified *)
(* or removed; and every query that returns a value returns what the entry *)
(* of its radix holds, so all callers observe the same metadata.           *)
(***************************************************************************)
C24_MutualExclusion ==
    /\ \A t, u \in Threads : (InCall(t) /\ InCall(u)) => t = u
    /\ \A t \in Threads : InCall(t) => holder = t
    /\ \A t, u \in Threads :
          (/\ tpc[t] \in {"unlock", "idle"} /\ tpc[u] \in {"unlock", "idle"}
           /\ tret[t].tag = "ok" /\ tret[u].tag = "ok"
           /\ treq[t].fn = treq[u].fn /\ treq[t].base = treq[u].base
           /\ treq[t].x = treq[u].x)
             => tret[t] = tret[u]
    /\ \A t \in Threads :
          (/\ tpc[t] = "unlock"
           /\ treq[t].fn \in {"get_cached_exp_range", "get_cached_sig_range",
                              "get_cached_pow"})
             => /\ treq[t].base \in DOMAIN cache
                /\ tret[t] = Stored(treq[t], cache[treq[t].base])

C24_EntryKept ==
    \A r \in DOMAIN cache : r \in DOMAIN cache' /\ cache'[r] = cache[r]

C24_GetOrInsert == []C24_MutualExclusion /\ [][C24_EntryKept]_vars

\* Two threads have ensured the same radix, the second after the first.
C24_Witness ==
    \E t, u \in Threads :
       /\ t # u
       /\ treq[t].fn = "ensure_cached" /\ tpc[t] = "idle" /\ tret[t].tag = "ok"
       /\ treq[u].fn = "ensure_cached" /\ tpc[u] = "unlock" /\ treq[u].cached
       /\ treq[u].base = treq[t].base

(***************************************************************************)
(* C25.  Entries stay readable: a call of get_cached_exp_range(r),         *)
(* get_cached_sig_range(r) or get_cached_pow(e, r) with e <= exp_range.max *)
(* that begins after ensure_cached(r) has stored the entry of r returns    *)
(* the stored metadata, whatever calls, succeeding or failing, the threads *)
(* made in between.                                                        *)
(***************************************************************************)
C25_StaysReadable ==
    \A t \in Threads :
       (/\ tpc[t] = "idle"
        /\ treq[t].cached
        /\ \/ treq[t].fn \in {"get_cached_exp_range", "get_cached_sig_range"}
           \/ /\ treq[t].fn = "get_cached_pow"
              /\ treq[t].x <= cache[treq[t].base].exp_range[2])
          => tret[t] = Stored(treq[t], cache[treq[t].base])

(***************************************************************************)
(* C26.  CacheMiss: a query that begins on a radix without an entry ends   *)
(* in the CacheMiss failure, returns no value, and leaves the map as it    *)
(* was.                                                                    *)
(***************************************************************************)
IsQuery(req) ==
    req.fn \in {"get_cached_pow", "get_cached_mag_arbitrary",
                "get_cached_exp_range", "get_cached_sig_range"}

C26_CacheMiss ==
    [][\A t \in Threads :
          (/\ IsQuery(treq'[t])
           /\ ~treq'[t].cached
           /\ tpc'[t] = "idle"
           /\ <<tpc[t], treq[t], tret[t]>> # <<tpc'[t], treq'[t], tret'[t]>>)
             => (tret'[t].tag = "CacheMiss" /\ cache' = cache)]_vars

(***************************************************************************)
(* C27.  The cache computes the metadata of the generic contract: the      *)
(* entry of every radix holds powers[i] = r^i for exactly the i with       *)
(* r^i <= u64::MAX, and its exp_range and sig_range are the ranges         *)
(* calculate_ranges() returns for the radix.                               *)
(***************************************************************************)
C27_SameMetadata ==
    \A r \in DOMAIN cache :
       LET d == cache[r]
       IN  /\ \A i \in 0..(2 * SigBits) :
                (pow(r, i) <= U64MAX) <=> (i < Len(d.powers))
           /\ \A i \in 0..(Len(d.powers) - 1) : d.powers[i + 1] = pow(r, i)
           /\ d.exp_range = <<min_exp(r), max_exp(r)>>
           /\ d.sig_range = <<min_sig(r), max_sig(r)>>

(***************************************************************************)
(* C28.  The cached magnitude is the integer logarithm: for a radix with   *)
(* an entry and every sig in 1..=u64::MAX, get_cached_mag_arbitrary, once  *)
(* it holds the lock, returns the highest x with r^x <= sig, the value of  *)
(* the generic get_mag(sig).                                               *)
(***************************************************************************)
C28_CachedMagnitude ==
    \A t \in Threads :
       (/\ treq[t].fn = "get_cached_mag_arbitrary"
        /\ treq[t].cached
        /\ treq[t].x >= 1
        /\ tpc[t] \in {"unlock", "idle"}
        /\ tret[t].tag # "LockPoisoned")
          => tret[t] = Ok(get_mag(treq[t].base, treq[t].x), 0)

(***************************************************************************)
(* C29.  No fixed-width accumulator overflows silently: whenever Add or    *)
(* Mul returns a value, no addition of its exponents or significands       *)
(* exceeded its word, so the value is the one the arithmetic without       *)
(* wrap-around gives; an exponent above u64::MAX ends in                   *)
(* ArithmeticOverflow, never in a wrapped value.                           *)
(***************************************************************************)
C29_NoSilentWrap ==
    /\ (op = "add" /\ out.tag = "ok") => out = add(base, lhs, rhs, FALSE)
    /\ (op = "mul" /\ out.tag = "ok") => out = mul(base, lhs, rhs, FALSE)

(***************************************************************************)
(* C30.  The borrow path of Sub is unreachable: for valid a >= b with an   *)
(* exponent gap below the window, a.sig - rshift(b.sig, a.exp - b.exp)     *)
(* does not wrap (the wrapping difference is at most a.sig), so the result *)
(* is that difference renormalized at a.exp, a.exp - 1 is not computed,    *)
(* and the subtraction cannot end in an exponent overflow.                 *)
(***************************************************************************)
C30_NoBorrow ==
    (op = "sub" /\ ge(lhs, rhs) /\ lhs.exp - rhs.exp < max_exp(base)) =>
       LET shifted == rshift(base, rhs.sig, as_u32(lhs.exp - rhs.exp))
           result == wrapping_sub(lhs.sig, shifted)
       IN  /\ shifted <= lhs.sig
           /\ result <= lhs.sig
           /\ result = lhs.sig - shifted
           /\ out.tag # "ArithmeticOverflow"
           /\ out = sub_normalize(base, result, lhs.exp)

\* A subtrahend of a lower exponent whose significand exceeds the minuend's.
C30_Witness ==
    /\ op = "sub"
    /\ pc = "ret"
    /\ lhs.exp > rhs.exp
    /\ lhs.exp - rhs.exp < max_exp(base)
    /\ rhs.sig > lhs.sig

====
